---- MODULE Spec2Model ----
(***************************************************************************)
(* The database provisioning pass of InfrastructureStack                   *)
(* (src/stack/infrastructure-stack.ts, lines 345-547), together with the   *)
(* InstanceBaseDatabase construct (src/unnamed/part_001) and the           *)
(* EdgeDbConstruct (src/unnamed/part_000) it instantiates.                 *)
(*                                                                         *)
(* Strings are sequences of tokens.  A database name is a sequence of      *)
(* one-character tokens; the literal pieces of a template string are       *)
(* single tokens ("postgres://", "/Database/", ...), except the suffixes   *)
(* "Secret" and "EdgeDb" of the construct ids, which a derived identifier  *)
(* can spell and which are written character by character.  Optional       *)
(* values (T | undefined) are the empty set or a one-element set.          *)
(***************************************************************************)
EXTENDS Integers, Sequences, FiniteSets, TLC

\* ---------------------------------------------------------------- bounds
\* the longest props.databases list that is explored
MaxDbs == 2

\* ------------------------------------------------------------ characters
LowerSeq ==
  << "a", "b", "c", "d", "e", "f", "g", "h", "i", "j", "k", "l", "m",
     "n", "o", "p", "q", "r", "s", "t", "u", "v", "w", "x", "y", "z" >>
UpperSeq ==
  << "A", "B", "C", "D", "E", "F", "G", "H", "I", "J", "K", "L", "M",
     "N", "O", "P", "Q", "R", "S", "T", "U", "V", "W", "X", "Y", "Z" >>
Lower == { LowerSeq[k] : k \in 1..Len(LowerSeq) }
Upper == { UpperSeq[k] : k \in 1..Len(UpperSeq) }
Digit == { "0", "1", "2", "3", "4", "5", "6", "7", "8", "9" }
AlphaNum == Lower \cup Upper \cup Digit

\* the character class of the name test, [a-zA-Z0-9_.]
AllowedChars == AlphaNum \cup {"_", "."}

\* String.prototype.toUpperCase / toLowerCase on one character
toUpperCase(c) ==
  IF c \in Lower THEN UpperSeq[CHOOSE k \in 1..Len(LowerSeq) : LowerSeq[k] = c] ELSE c

toLowerCase(c) ==
  IF c \in Upper THEN LowerSeq[CHOOSE k \in 1..Len(UpperSeq) : UpperSeq[k] = c] ELSE c

\* the name test /[a-zA-Z0-9_.]+/.test(name): the pattern is not anchored,
\* so it matches when some substring of one or more allowed characters exists
NameTest(name) == \E i \in 1..Len(name) : name[i] \in AllowedChars

\* ------------------------------------------------------ lodash camelCase
\* the end of the longest run of characters of class C that starts at i
\* (i - 1 when s[i] is not in C)
RECURSIVE RunEnd(_, _, _)
RunEnd(s, i, C) ==
  IF i <= Len(s) /\ s[i] \in C THEN RunEnd(s, i + 1, C) ELSE i - 1

\* what follows position j: "end", "break", "upper", "lower" or "digit"
After(s, j) ==
  IF j + 1 > Len(s) THEN "end"
  ELSE IF s[j + 1] \in Upper THEN "upper"
  ELSE IF s[j + 1] \in Lower THEN "lower"
  ELSE IF s[j + 1] \in Digit THEN "digit"
  ELSE "break"

\* lodash reUnicodeWord tried at position i: the end of the match of the
\* first alternative that matches, 0 when none does.  In order:
\*   Upper? Lower+ (?= break | Upper | $)
\*   Upper+ (?= break | Upper Lower | $)
\*   Upper? Lower+
\*   Upper+
\*   \d+
\* (the ordinal, contraction and emoji alternatives need characters outside
\* the alphabet used here)
UnicodeWordEnd(s, i) ==
  LET p == IF s[i] \in Upper THEN i + 1 ELSE i
      lowEnd == RunEnd(s, p, Lower)
      upEnd == RunEnd(s, i, Upper)
      digEnd == RunEnd(s, i, Digit)
  IN  IF lowEnd >= p /\ After(s, lowEnd) \in {"break", "upper", "end"} THEN lowEnd
      ELSE IF upEnd >= i /\ After(s, upEnd) \in {"break", "end"} THEN upEnd
      ELSE IF upEnd >= i + 1 /\ After(s, upEnd) = "lower" THEN upEnd - 1
      ELSE IF lowEnd >= p THEN lowEnd
      ELSE IF upEnd >= i THEN upEnd
      ELSE IF digEnd >= i THEN digEnd
      ELSE 0

RECURSIVE UnicodeWords(_, _)
UnicodeWords(s, i) ==
  IF i > Len(s) THEN << >>
  ELSE LET e == UnicodeWordEnd(s, i)
       IN  IF e = 0 THEN UnicodeWords(s, i + 1)
           ELSE <<SubSeq(s, i, e)>> \o UnicodeWords(s, e + 1)

\* lodash reAsciiWord: the maximal runs of letters and digits
RECURSIVE AsciiWords(_, _)
AsciiWords(s, i) ==
  IF i > Len(s) THEN << >>
  ELSE LET e == RunEnd(s, i, AlphaNum)
       IN  IF e < i THEN AsciiWords(s, i + 1)
           ELSE <<SubSeq(s, i, e)>> \o AsciiWords(s, e + 1)

\* lodash reHasUnicodeWord:
\*   [a-z][A-Z] | [A-Z]{2}[a-z] | [0-9][a-zA-Z] | [a-zA-Z][0-9] | [^a-zA-Z0-9 ]
HasUnicodeWord(s) ==
  \/ \E i \in 1..Len(s) : s[i] \notin AlphaNum \cup {" "}
  \/ \E i \in 1..(Len(s) - 1) :
       \/ s[i] \in Lower /\ s[i + 1] \in Upper
       \/ s[i] \in Digit /\ s[i + 1] \in Lower \cup Upper
       \/ s[i] \in Lower \cup Upper /\ s[i + 1] \in Digit
  \/ \E i \in 1..(Len(s) - 2) :
       s[i] \in Upper /\ s[i + 1] \in Upper /\ s[i + 2] \in Lower

\* lodash words(string)
Words(s) == IF HasUnicodeWord(s) THEN UnicodeWords(s, 1) ELSE AsciiWords(s, 1)

LowerWord(w) == [k \in 1..Len(w) |-> toLowerCase(w[k])]

\* lodash upperFirst
upperFirst(w) ==
  IF Len(w) = 0 THEN w ELSE <<toUpperCase(w[1])>> \o SubSeq(w, 2, Len(w))

RECURSIVE CamelJoin(_, _)
CamelJoin(ws, k) ==
  IF k > Len(ws) THEN << >>
  ELSE (IF k = 1 THEN LowerWord(ws[k]) ELSE upperFirst(LowerWord(ws[k])))
         \o CamelJoin(ws, k + 1)

\* lodash camelCase(string): the words, lower-cased, every word but the
\* first with its first character upper-cased, joined
camelCase(s) == CamelJoin(Words(s), 1)


\* ------------------------------------------------------------------ inputs
\* an optional value is {} (undefined) or {v}; Get reads a defined one
Get(opt) == CHOOSE v \in opt : TRUE

\* a ?? d  and  a || d  on an optional number
Coalesce(opt, d) == IF opt = {} THEN d ELSE Get(opt)
OrDefault(opt, d) == IF opt = {} \/ opt = {0} THEN d ELSE Get(opt)

\* the stack id and props.secretsPrefix of the pass
StackId == <<"ElsaDataStack">>
secretsPrefix == <<"ElsaData">>

\* the database names tried: empty, without any allowed character, an allowed
\* separator alone, a digit, the digit with a trailing separator, a name with
\* a character outside the allowed class, and a name whose derived identifier
\* ends in EdgeDb
DbNames ==
  { << >>, <<"-">>, <<"_">>, <<"1">>, <<"1", "_">>, <<"b", "-">>,
    <<"1", "_", "e", "d", "g", "e", "_", "d", "b">> }

\* `${v}` of a template literal: an undefined value renders as "undefined"
Interpolate(opt) == IF opt = {} THEN <<"undefined">> ELSE Get(opt)

\* dbConfig.adminUser, and the databaseAdminUser that the spread of dbConfig
\* hands to the base database: the stack sets no databaseAdminUser itself, so
\* a config that holds only the fields the stack reads leaves it undefined
AdminUsers == { <<"admin">> }
DatabaseAdminUsers == { {} }

\* the two variant tags of the switch, and the tags the data model names
PostgresTypes ==
  { "postgres-instance", "postgres-serverless-2", "instance", "serverless-2" }

\* dbConfig.edgeDb.makePubliclyReachable: undefined, or a block with a uiPort
EdgeDbPublicInputs == { {} } \cup { {[uiPort |-> u]} : u \in { {} } }

\* dbConfig.edgeDb: undefined, or a block
EdgeDbInputs ==
  { {} } \cup
  { {[dbPort |-> d, cpu |-> {}, memoryLimitMiB |-> {}, makePubliclyReachable |-> m]} :
      d \in { {} }, m \in EdgeDbPublicInputs }

DatabaseConfigs ==
  [ name : DbNames,
    adminUser : AdminUsers,
    databaseAdminUser : DatabaseAdminUsers,
    postgresType : PostgresTypes,
    makePubliclyReachable : BOOLEAN,
    edgeDb : EdgeDbInputs ]

\* the inputs of a pass over a single config, with the numbers of the EdgeDb
\* block and the databaseAdminUser varied: dbPort and uiPort undefined, 0,
\* the default of the scheme and another port; cpu and memoryLimitMiB
\* undefined or given; databaseAdminUser undefined, adminUser or another user
LayerDbNames == { <<"1">>, <<"b", "-">> }
LayerDatabaseAdminUsers == { {}, {<<"admin">>}, {<<"postgres">>} }
LayerPostgresTypes == { "postgres-instance", "postgres-serverless-2", "instance" }
LayerDbPorts == { {}, {0}, {5656}, {5657} }
LayerUiPorts == { {}, {0}, {443}, {8443} }
LayerCpus == { {}, {512} }
LayerMemoryLimits == { {}, {4096} }

LayerEdgeDbPublicInputs == { {} } \cup { {[uiPort |-> u]} : u \in LayerUiPorts }

LayerEdgeDbInputs ==
  { {} } \cup
  { {[dbPort |-> d, cpu |-> c, memoryLimitMiB |-> m, makePubliclyReachable |-> r]} :
      d \in LayerDbPorts, c \in LayerCpus, m \in LayerMemoryLimits,
      r \in LayerEdgeDbPublicInputs }

LayerDatabaseConfigs ==
  [ name : LayerDbNames,
    adminUser : AdminUsers,
    databaseAdminUser : LayerDatabaseAdminUsers,
    postgresType : LayerPostgresTypes,
    makePubliclyReachable : BOOLEAN,
    edgeDb : LayerEdgeDbInputs ]

\* ------------------------------------------------------------------- state
VARIABLES
  dns,             \* whether props.dns is given: hz and cert are then defined
  databases,       \* the configs of props.databases taken by the loop so far
  pc,              \* the statement of the loop body that runs next
  error,           \* "none", or the error thrown by the constructor
  cdkIdSafeDbName, \* the derived identifier of the current config
  constructs,      \* the construct tree: [scope, id, kind, cfg], in order
  secrets,         \* the secrets of the databases
  securityGroups,  \* the database security groups
  baseDbs,         \* the base databases whose constructor returned
  params,          \* the published parameters: [key, value, cfg], in order
  edgeDbs          \* the EdgeDb constructs whose constructor returned

vars ==
  << dns, databases, pc, error, cdkIdSafeDbName, constructs, secrets,
     securityGroups, baseDbs, params, edgeDbs >>

\* the index of the config the loop body is working on
idx == Len(databases)
dbConfig == databases[idx]

\* the scope of the stack itself
StackScope == << >>

\* the suffixes of `${cdkIdSafeDbName}Secret` and `${cdkIdSafeDbName}EdgeDb`
SecretSuffix == <<"S", "e", "c", "r", "e", "t">>
EdgeDbSuffix == <<"E", "d", "g", "e", "D", "b">>

\* -------------------------------------------------------- construct tree
Construct(scope, id, kind, cfg) ==
  [scope |-> scope, id |-> id, kind |-> kind, cfg |-> cfg]

\* constructs: a Construct with an id already used in its scope throws
Exists(cs, c) == \E k \in 1..Len(cs) : cs[k].scope = c.scope /\ cs[k].id = c.id

\* the constructs of reqs are created in order until one throws: the tree
\* then holds those created before it
RECURSIVE RegisterAll(_, _, _)
RegisterAll(cs, reqs, k) ==
  IF k > Len(reqs) THEN [constructs |-> cs, n |-> Len(reqs)]
  ELSE IF Exists(cs, reqs[k]) THEN [constructs |-> cs, n |-> k - 1]
  ELSE RegisterAll(Append(cs, reqs[k]), reqs, k + 1)

\* the constructs the stack has created when the database loop starts
StaticIds(d) ==
  << "VPC", "VpcIdParameter", "AvailabilityZonesParameter",
     "PublicSubnetIdsParameter", "PublicSubnetRouteTableIdsParameter",
     "PrivateSubnetIdsParameter", "PrivateSubnetRouteTableIdsParameter",
     "IsolatedSubnetIdsParameter", "IsolatedSubnetRouteTableIdsParameter",
     "SecurityGroup", "SecurityGroupIdParameter", "InternalSecurityGroup",
     "InternalSecurityGroupIdParameter", "SecretsPrefixParameter",
     "TempPrivateBucket", "TempPrivateBucketArnParameter",
     "TempPrivateBucketNameParameter" >>
  \o (IF d THEN << "HostedZone", "WildcardCertificate", "ZoneNameParameter",
                   "HostedZoneIdParameter", "CertificateArnParameter" >>
      ELSE << >>)

StaticConstructs(d) ==
  [k \in 1..Len(StaticIds(d)) |->
     Construct(StackScope, <<StaticIds(d)[k]>>, "Static", 0)]

\* ------------------------------------------------------------------ tokens
\* an attribute of a construct that resolves at deployment
Token(path, attr) == <<"${Token[">> \o path \o <<".", attr, "]}">>

\* secret.secretValueFromJson(field).unsafeUnwrap()
SecretValueFromJson(secretPath, field) ==
  <<"{{resolve:secretsmanager:">> \o secretPath \o <<":SecretString:", field, "}}">>

Init ==
  /\ dns \in BOOLEAN
  /\ databases = << >>
  /\ pc = "for"
  /\ error = "none"
  /\ cdkIdSafeDbName = << >>
  /\ constructs = StaticConstructs(dns)
  /\ secrets = << >>
  /\ securityGroups = << >>
  /\ baseDbs = << >>
  /\ params = << >>
  /\ edgeDbs = << >>


\* a throw: the constructor is left, nothing runs after it
Throw(e) == error' = e

\* ------------------------------------------------- for (const dbConfig of ...)
\* the loop takes the next config of the list, or the list has ended
ForNext ==
  /\ pc = "for" /\ error = "none"
  /\ idx < MaxDbs
  /\ \E c \in DatabaseConfigs : databases' = Append(databases, c)
  /\ pc' = "validate"
  /\ UNCHANGED << dns, error, cdkIdSafeDbName, constructs, secrets,
                  securityGroups, baseDbs, params, edgeDbs >>

\* the loop over a list of one config, taken from the varied inputs
ForNextLayer ==
  /\ pc = "for" /\ error = "none"
  /\ databases = << >>
  /\ \E c \in LayerDatabaseConfigs : databases' = Append(databases, c)
  /\ pc' = "validate"
  /\ UNCHANGED << dns, error, cdkIdSafeDbName, constructs, secrets,
                  securityGroups, baseDbs, params, edgeDbs >>

ForEnd ==
  /\ pc = "for" /\ error = "none"
  /\ pc' = "done"
  /\ UNCHANGED << dns, databases, error, cdkIdSafeDbName, constructs, secrets,
                  securityGroups, baseDbs, params, edgeDbs >>

\* ------------------------------------------------------------ the name test
\* the name test placed after the creation of the secret
ValidateName_AfterSecret ==
  /\ pc = "validate" /\ error = "none"
  /\ constructs' = Append(constructs,
                      Construct(StackScope, dbConfig.name \o SecretSuffix, "Secret", idx))
  /\ IF ~NameTest(dbConfig.name)
       THEN Throw("DatabaseName") /\ pc' = pc
       ELSE pc' = "derive" /\ UNCHANGED error
  /\ UNCHANGED << dns, databases, cdkIdSafeDbName, secrets,
                  securityGroups, baseDbs, params, edgeDbs >>

ValidateName ==
  /\ pc = "validate" /\ error = "none"
  /\ IF ~NameTest(dbConfig.name)
       THEN Throw("DatabaseName") /\ pc' = pc
       ELSE pc' = "derive" /\ UNCHANGED error
  /\ UNCHANGED << dns, databases, cdkIdSafeDbName, constructs, secrets,
                  securityGroups, baseDbs, params, edgeDbs >>

\* ------------------------------------------------- the derived identifier
\* cdkIdSafeDbName[0].toUpperCase() + cdkIdSafeDbName.slice(1): the first
\* character of an empty string is undefined, and the call on it a TypeError
DeriveId ==
  /\ pc = "derive" /\ error = "none"
  /\ LET c == camelCase(dbConfig.name)
     IN  IF Len(c) = 0
           THEN Throw("TypeError") /\ pc' = pc /\ UNCHANGED cdkIdSafeDbName
           ELSE /\ cdkIdSafeDbName' = <<toUpperCase(c[1])>> \o SubSeq(c, 2, Len(c))
                /\ pc' = "secret"
                /\ UNCHANGED error
  /\ UNCHANGED << dns, databases, constructs, secrets, securityGroups,
                  baseDbs, params, edgeDbs >>

\* ------------------------------------------------------------- the secret
\* secretName: props.secretsPrefix ? `${prefix}${cdkIdSafeDbName}Rds` : undefined
BaseDbSecretName(prefix, cdkId) ==
  IF Len(prefix) > 0 THEN { prefix \o cdkId \o <<"Rds">> } ELSE {}

BaseDbSecret(cdkId, cfg, i) ==
  [ cfg |-> i,
    path |-> cdkId \o SecretSuffix,
    secretName |-> BaseDbSecretName(secretsPrefix, cdkId),
    username |-> cfg.adminUser,
    generateStringKey |-> "password" ]

\* the secret created together with the adminUser parameter, which needs
\* nothing but the config
CreateSecret_ParameterFirst ==
  /\ pc = "secret" /\ error = "none"
  /\ LET r == RegisterAll(constructs,
                << Construct(StackScope, cdkIdSafeDbName \o SecretSuffix,
                             "Secret", idx),
                   Construct(StackScope,
                             cdkIdSafeDbName \o <<"DatabaseAdminUserParameter">>,
                             "StringParameter", idx) >>, 1)
     IN  /\ constructs' = r.constructs
         /\ IF r.n = 2
              THEN /\ secrets' = Append(secrets,
                                   BaseDbSecret(cdkIdSafeDbName, dbConfig, idx))
                   /\ params' = Append(params,
                                  [ key |-> <<"/">> \o StackId \o <<"/Database/">>
                                              \o dbConfig.name \o <<"/", "adminUser">>,
                                    value |-> dbConfig.adminUser, cfg |-> idx ])
                   /\ pc' = "baseDb"
                   /\ UNCHANGED error
              ELSE Throw("DuplicateId") /\ pc' = pc /\ UNCHANGED << secrets, params >>
  /\ UNCHANGED << dns, databases, cdkIdSafeDbName, securityGroups, baseDbs,
                  edgeDbs >>

CreateSecret ==
  /\ pc = "secret" /\ error = "none"
  /\ LET r == RegisterAll(constructs,
                << Construct(StackScope, cdkIdSafeDbName \o SecretSuffix,
                             "Secret", idx) >>, 1)
     IN  /\ constructs' = r.constructs
         /\ IF r.n = 1
              THEN /\ secrets' = Append(secrets,
                                   BaseDbSecret(cdkIdSafeDbName, dbConfig, idx))
                   /\ pc' = "baseDb"
                   /\ UNCHANGED error
              ELSE Throw("DuplicateId") /\ pc' = pc /\ UNCHANGED secrets
  /\ UNCHANGED << dns, databases, cdkIdSafeDbName, securityGroups, baseDbs,
                  params, edgeDbs >>


\* ------------------------------------------------------ the base database
\* the path of a construct of the tree
Path(scope, id) == IF scope = StackScope THEN id ELSE scope \o <<"/">> \o id

\* the port instanceEndpoint.port resolves to
InstanceEndpointPort == 5432

\* new SecurityGroup(.., { allowAllOutbound: false, allowAllIpv6Outbound: false })
NewDatabaseSecurityGroup(path, i) ==
  [ cfg |-> i, path |-> path, allowAllOutbound |-> FALSE,
    allowAllIpv6Outbound |-> FALSE, ingress |-> {} ]

addIngressRule(sg, peer, port) ==
  [sg EXCEPT !.ingress = @ \cup { [peer |-> peer, port |-> port] }]

\* ec2.Peer.anyIpv4()
anyIpv4 == <<"0.0.0.0/0">>

\* the ingress rule of the database security group: from any address for a
\* publicly reachable database, from the group itself otherwise
DatabaseIngressPeer_Swapped(sg, makePubliclyReachable) ==
  IF makePubliclyReachable THEN sg.path ELSE anyIpv4

DatabaseIngressPeer(sg, makePubliclyReachable) ==
  IF makePubliclyReachable THEN anyIpv4 ELSE sg.path

\* postgres://<username token>:<password token>@<hostname>:<port>/<databaseName>
DsnWithTokens(secretPath, hostname, port, databaseName) ==
  <<"postgres://">> \o SecretValueFromJson(secretPath, "username") \o <<":">>
    \o SecretValueFromJson(secretPath, "password")
    \o <<"@">> \o hostname \o <<":", ToString(port), "/">> \o databaseName

\* the DSN without password, written without the port
DsnNoPassword_NoPort(databaseAdminUser, hostname, port, databaseName) ==
  <<"postgres://">> \o Interpolate(databaseAdminUser)
    \o <<"@">> \o hostname \o <<"/">> \o databaseName

\* postgres://<databaseAdminUser>@<hostname>:<port>/<databaseName>
DsnNoPassword(databaseAdminUser, hostname, port, databaseName) ==
  <<"postgres://">> \o Interpolate(databaseAdminUser)
    \o <<"@">> \o hostname \o <<":", ToString(port), "/">> \o databaseName

\* new InstanceBaseDatabase(this, cdkIdSafeDbName, props): the construct
\* itself, then its security group and its database instance, both created
\* in the scope handed in (the stack) under fixed ids
InstanceBaseDatabase(cs, i, cdkId, props) ==
  LET reqs == << Construct(StackScope, cdkId, "InstanceBaseDatabase", i),
                 Construct(StackScope, <<"DatabaseSecurityGroup">>, "SecurityGroup", i),
                 Construct(StackScope, <<"DatabaseInstance">>, "DatabaseInstance", i) >>
      r == RegisterAll(cs, reqs, 1)
      sg0 == NewDatabaseSecurityGroup(Path(StackScope, <<"DatabaseSecurityGroup">>), i)
      hostname == Token(Path(StackScope, <<"DatabaseInstance">>), "Endpoint.Address")
      port == InstanceEndpointPort
      sg == addIngressRule(sg0, DatabaseIngressPeer(sg0, props.makePubliclyReachable), port)
  IN  [ constructs |-> r.constructs,
        ok |-> r.n = Len(reqs),
        securityGroups |-> IF r.n = Len(reqs) THEN <<sg>>
                           ELSE IF r.n >= 2 THEN <<sg0>> ELSE << >>,
        baseDbs |-> IF r.n = Len(reqs)
                      THEN << [ cfg |-> i, variant |-> "InstanceBaseDatabase",
                                path |-> cdkId, hostname |-> hostname, port |-> port,
                                dsnWithTokens |->
                                  DsnWithTokens(props.secret, hostname, port, props.databaseName),
                                dsnNoPassword |->
                                  DsnNoPassword(props.databaseAdminUser, hostname, port,
                                                props.databaseName),
                                securityGroup |-> sg.path ] >>
                      ELSE << >> ]

\* new ServerlessBaseDatabase(this, cdkIdSafeDbName, props): the variant
\* derives its own security group and assembles the same two DSN forms, the
\* one without password from the adminUser literal
ServerlessBaseDatabase(cs, i, cdkId, props) ==
  LET reqs == << Construct(StackScope, cdkId, "ServerlessBaseDatabase", i),
                 Construct(cdkId, <<"SecurityGroup">>, "SecurityGroup", i),
                 Construct(cdkId, <<"ServerlessCluster">>, "ServerlessCluster", i) >>
      r == RegisterAll(cs, reqs, 1)
      sg0 == NewDatabaseSecurityGroup(Path(cdkId, <<"SecurityGroup">>), i)
      hostname == Token(Path(cdkId, <<"ServerlessCluster">>), "Endpoint.Address")
      port == InstanceEndpointPort
      sg == addIngressRule(sg0, DatabaseIngressPeer(sg0, props.makePubliclyReachable), port)
  IN  [ constructs |-> r.constructs,
        ok |-> r.n = Len(reqs),
        securityGroups |-> IF r.n = Len(reqs) THEN <<sg>>
                           ELSE IF r.n >= 2 THEN <<sg0>> ELSE << >>,
        baseDbs |-> IF r.n = Len(reqs)
                      THEN << [ cfg |-> i, variant |-> "ServerlessBaseDatabase",
                                path |-> cdkId, hostname |-> hostname, port |-> port,
                                dsnWithTokens |->
                                  DsnWithTokens(props.secret, hostname, port, props.databaseName),
                                dsnNoPassword |->
                                  DsnNoPassword({props.adminUser}, hostname, port,
                                                props.databaseName),
                                securityGroup |-> sg.path ] >>
                      ELSE << >> ]

\* { vpc: vpc, databaseName: dbConfig.name, secret: baseDbSecret, ...dbConfig }:
\* the fields the base database reads
BaseDatabaseProps(cfg, secretPath) ==
  [ databaseName |-> cfg.name,
    secret |-> secretPath,
    adminUser |-> cfg.adminUser,
    databaseAdminUser |-> cfg.databaseAdminUser,
    makePubliclyReachable |-> cfg.makePubliclyReachable ]

\* switch (dbConfig.postgresType)
Dispatch_DataModelTags(postgresType) ==
  CASE postgresType = "instance" -> "InstanceBaseDatabase"
    [] postgresType = "serverless-2" -> "ServerlessBaseDatabase"
    [] OTHER -> "default"

Dispatch(postgresType) ==
  CASE postgresType = "postgres-instance" -> "InstanceBaseDatabase"
    [] postgresType = "postgres-serverless-2" -> "ServerlessBaseDatabase"
    [] OTHER -> "default"

CreateBaseDb ==
  /\ pc = "baseDb" /\ error = "none"
  /\ LET variant == Dispatch(dbConfig.postgresType)
         props == BaseDatabaseProps(dbConfig, secrets[Len(secrets)].path)
     IN  IF variant = "default"
           THEN /\ Throw("UnknownType") /\ pc' = pc
                /\ UNCHANGED << constructs, securityGroups, baseDbs >>
           ELSE LET r == IF variant = "InstanceBaseDatabase"
                           THEN InstanceBaseDatabase(constructs, idx, cdkIdSafeDbName,
                                                     props)
                           ELSE ServerlessBaseDatabase(constructs, idx, cdkIdSafeDbName,
                                                       props)
                IN  /\ constructs' = r.constructs
                    /\ securityGroups' = securityGroups \o r.securityGroups
                    /\ baseDbs' = baseDbs \o r.baseDbs
                    /\ IF r.ok THEN pc' = "params" /\ UNCHANGED error
                       ELSE Throw("DuplicateId") /\ pc' = pc
  /\ UNCHANGED << dns, databases, cdkIdSafeDbName, secrets, params, edgeDbs >>


\* ------------------------------------------------ the database parameters
\* `/${id}/Database/${dbConfig.name}/<field>`
ParameterName_NoDbName(id, name, field) ==
  <<"/">> \o id \o <<"/Database/">> \o <<field>>

ParameterName(id, name, field) ==
  <<"/">> \o id \o <<"/Database/">> \o name \o <<"/", field>>

Parameter(cdkId, idSuffix, key, value) ==
  [ id |-> cdkId \o <<idSuffix>>, key |-> key, value |-> value ]

\* the seven StringParameters of a base database, in the order of creation
DatabaseParameters(id, cdkId, cfg, db, secret) ==
  << Parameter(cdkId, "DatabaseDsnWithPasswordParameter",
               ParameterName(id, cfg.name, "dsnWithPassword"), db.dsnWithTokens),
     Parameter(cdkId, "DatabaseDsnNoPasswordParameter",
               ParameterName(id, cfg.name, "dsnNoPassword"), db.dsnNoPassword),
     Parameter(cdkId, "DatabaseHostnameParameter",
               ParameterName(id, cfg.name, "hostname"), db.hostname),
     Parameter(cdkId, "DatabasePortParameter",
               ParameterName(id, cfg.name, "port"), <<ToString(db.port)>>),
     Parameter(cdkId, "DatabaseAdminUserParameter",
               ParameterName(id, cfg.name, "adminUser"), cfg.adminUser),
     Parameter(cdkId, "DatabaseAdminPasswordSecretArnParameter",
               ParameterName(id, cfg.name, "adminPasswordSecretArn"),
               Token(secret.path, "Arn")),
     Parameter(cdkId, "DatabaseSecurityGroupIdParameter",
               ParameterName(id, cfg.name, "securityGroupId"),
               Token(db.securityGroup, "GroupId")) >>

\* new StringParameter(this, id, { parameterName, stringValue }), one after
\* the other: the parameters created before a throw stay published
Publish(ps, i) ==
  LET reqs == [k \in 1..Len(ps) |->
                 Construct(StackScope, ps[k].id, "StringParameter", i)]
      r == RegisterAll(constructs, reqs, 1)
  IN  /\ constructs' = r.constructs
      /\ params' = params \o [k \in 1..r.n |->
                                [key |-> ps[k].key, value |-> ps[k].value, cfg |-> i]]
      /\ IF r.n = Len(ps) THEN UNCHANGED error ELSE Throw("DuplicateId")

PublishDatabaseParameters ==
  /\ pc = "params" /\ error = "none"
  /\ Publish(DatabaseParameters(StackId, cdkIdSafeDbName, dbConfig,
                                baseDbs[Len(baseDbs)], secrets[Len(secrets)]), idx)
  /\ pc' = IF error' = "none" THEN "edgeDbCheck" ELSE pc
  /\ UNCHANGED << dns, databases, cdkIdSafeDbName, secrets, securityGroups,
                  baseDbs, edgeDbs >>


\* -------------------------------------------------------- the EdgeDb layer
\* hz and cert are assigned only inside if (props.dns)
hz == IF dns THEN { <<"HostedZone">> } ELSE {}
cert == IF dns THEN { <<"WildcardCertificate">> } ELSE {}

\* if (dbConfig.edgeDb) { if (makePubliclyReachable) if (!cert || !hz) throw ..
EdgeDbCheck ==
  /\ pc = "edgeDbCheck" /\ error = "none"
  /\ IF dbConfig.edgeDb = {}
       THEN pc' = "for" /\ UNCHANGED error
       ELSE IF Get(dbConfig.edgeDb).makePubliclyReachable # {}
                 /\ (cert = {} \/ hz = {})
              THEN Throw("EdgeDbUi") /\ pc' = pc
              ELSE pc' = "edgeDb" /\ UNCHANGED error
  /\ UNCHANGED << dns, databases, cdkIdSafeDbName, constructs, secrets,
                  securityGroups, baseDbs, params, edgeDbs >>

\* the props with the defaults of cpu and memory exchanged
EdgeDbProps_DefaultsSwapped(cfg, cdkId, db) ==
  LET e == Get(cfg.edgeDb)
  IN  [ rdsDatabaseDisplayName |-> cfg.name,
        rdsDatabaseCdkIdSafeDbName |-> cdkId,
        secretsPrefix |-> secretsPrefix,
        edgeDbService |->
          [ baseDbDsn |-> db.dsnWithTokens,
            baseDbSecurityGroup |-> db.securityGroup,
            desiredCount |-> 1,
            cpu |-> Coalesce(e.cpu, 2048),
            memory |-> Coalesce(e.memoryLimitMiB, 1024),
            superUser |-> <<"elsa_superuser">>,
            enableUiFeatureFlag |-> e.makePubliclyReachable # {} ],
        edgeDbLoadBalancerProtocol |->
          [ tcpPassthroughPort |-> OrDefault(e.dbPort, 5656) ],
        edgeDbLoadBalancerUi |->
          IF e.makePubliclyReachable # {}
            THEN { [ hostedPort |-> Coalesce(Get(e.makePubliclyReachable).uiPort, 443),
                     hostedCertificate |-> cert,
                     hostedZone |-> hz ] }
            ELSE {} ]

\* the props handed to new EdgeDbConstruct(this, `${cdkIdSafeDbName}EdgeDb`, ..)
EdgeDbProps(cfg, cdkId, db) ==
  LET e == Get(cfg.edgeDb)
  IN  [ rdsDatabaseDisplayName |-> cfg.name,
        rdsDatabaseCdkIdSafeDbName |-> cdkId,
        secretsPrefix |-> secretsPrefix,
        edgeDbService |->
          [ baseDbDsn |-> db.dsnWithTokens,
            baseDbSecurityGroup |-> db.securityGroup,
            desiredCount |-> 1,
            cpu |-> Coalesce(e.cpu, 1024),
            memory |-> Coalesce(e.memoryLimitMiB, 2048),
            superUser |-> <<"elsa_superuser">>,
            enableUiFeatureFlag |-> e.makePubliclyReachable # {} ],
        edgeDbLoadBalancerProtocol |->
          [ tcpPassthroughPort |-> OrDefault(e.dbPort, 5656) ],
        edgeDbLoadBalancerUi |->
          IF e.makePubliclyReachable # {}
            THEN { [ hostedPort |-> Coalesce(Get(e.makePubliclyReachable).uiPort, 443),
                     hostedCertificate |-> cert,
                     hostedZone |-> hz ] }
            ELSE {} ]

\* the DSN with the port always written
EdgeDbDsn_AlwaysPort(superUser, dnsName, tcpPassthroughPort) ==
  <<"edgedb://">> \o superUser \o <<"@">> \o dnsName
    \o <<":", ToString(tcpPassthroughPort)>>

\* `edgedb://${superUser}@${dnsName}${port != 5656 ? ":" + port : ""}`
EdgeDbDsn(superUser, dnsName, tcpPassthroughPort) ==
  <<"edgedb://">> \o superUser \o <<"@">> \o dnsName
    \o (IF tcpPassthroughPort # 5656 THEN <<":", ToString(tcpPassthroughPort)>>
        ELSE << >>)

\* `https://${dnsName}${hostedPort != 443 ? ":" + hostedPort : ""}/ui`
EdgeDbUiUrl(dnsName, hostedPort) ==
  <<"https://">> \o dnsName
    \o (IF hostedPort # 443 THEN <<":", ToString(hostedPort)>> ELSE << >>)
    \o <<"/ui">>

\* new EdgeDbConstruct(scope, id, props): the construct, then in its own
\* scope the secret, the service, the protocol load balancer and the DSN
\* output, and with edgeDbLoadBalancerUi the UI load balancer and its output
EdgeDbConstruct(cs, i, id, props) ==
  LET ui == props.edgeDbLoadBalancerUi
      reqs == << Construct(StackScope, id, "EdgeDbConstruct", i),
                 Construct(id, <<"EdgeDbSecret">>, "EdgeDbSecret", i),
                 Construct(id, <<"EdgeDbService">>, "EdgeDbService", i),
                 Construct(id, <<"EdgeDbLoadBalancerProtocol">>,
                           "EdgeDbLoadBalancerProtocol", i),
                 Construct(id, <<"EdgeDbDsnNoPasswordOrDatabase">>, "CfnOutput", i) >>
              \o (IF ui # {}
                    THEN << Construct(id, <<"EdgeDbLoadBalancerUi">>,
                                      "EdgeDbLoadBalancerUi", i),
                            Construct(id, <<"EdgeDbUiUrl">>, "CfnOutput", i) >>
                    ELSE << >>)
      r == RegisterAll(cs, reqs, 1)
      dsn == EdgeDbDsn(props.edgeDbService.superUser,
                       Token(Path(id, <<"EdgeDbLoadBalancerProtocol">>), "DnsName"),
                       props.edgeDbLoadBalancerProtocol.tcpPassthroughPort)
  IN  [ constructs |-> r.constructs,
        ok |-> r.n = Len(reqs),
        edgeDbs |->
          IF r.n = Len(reqs)
            THEN << [ cfg |-> i,
                      path |-> id,
                      passwordSecret |->
                        [ path |-> Path(id, <<"EdgeDbSecret">>),
                          secretName |-> props.secretsPrefix
                                           \o props.rdsDatabaseCdkIdSafeDbName
                                           \o <<"EdgeDb">> ],
                      service |-> props.edgeDbService,
                      securityGroup |-> Path(id, <<"EdgeDbService">>),
                      protocol |-> props.edgeDbLoadBalancerProtocol,
                      ui |-> ui,
                      dsn |-> dsn,
                      uiUrl |->
                        IF ui # {}
                          THEN { EdgeDbUiUrl(
                                   Token(Path(id, <<"EdgeDbLoadBalancerUi">>), "DnsName"),
                                   Get(ui).hostedPort) }
                          ELSE {} ] >>
            ELSE << >> ]

CreateEdgeDb ==
  /\ pc = "edgeDb" /\ error = "none"
  /\ LET r == EdgeDbConstruct(constructs, idx, cdkIdSafeDbName \o EdgeDbSuffix,
                              EdgeDbProps(dbConfig, cdkIdSafeDbName,
                                          baseDbs[Len(baseDbs)]))
     IN  /\ constructs' = r.constructs
         /\ edgeDbs' = edgeDbs \o r.edgeDbs
         /\ IF r.ok THEN pc' = "edgeDbParams" /\ UNCHANGED error
            ELSE Throw("DuplicateId") /\ pc' = pc
  /\ UNCHANGED << dns, databases, cdkIdSafeDbName, secrets, securityGroups,
                  baseDbs, params >>

\* databaseEdgeDb...ParameterName(id, dbName): the EdgeDb keys of a database
EdgeDbParameterName(id, name, field) ==
  <<"/">> \o id \o <<"/Database/">> \o name \o <<"/EdgeDb/", field>>

\* the three StringParameters of an EdgeDb layer, in the order of creation
EdgeDbParameters(id, cdkId, cfg, edgeDb) ==
  << Parameter(cdkId, "DatabaseEdgeDbDsnNoPasswordOrDatabaseParameter",
               EdgeDbParameterName(id, cfg.name, "dsnNoPasswordOrDatabase"),
               edgeDb.dsn),
     Parameter(cdkId, "DatabaseEdgeDbAdminPasswordSecretArnParameter",
               EdgeDbParameterName(id, cfg.name, "adminPasswordSecretArn"),
               Token(edgeDb.passwordSecret.path, "Arn")),
     Parameter(cdkId, "DatabaseEdgeDbSecurityGroupIdParameter",
               EdgeDbParameterName(id, cfg.name, "securityGroupId"),
               Token(edgeDb.securityGroup, "GroupId")) >>

PublishEdgeDbParameters ==
  /\ pc = "edgeDbParams" /\ error = "none"
  /\ Publish(EdgeDbParameters(StackId, cdkIdSafeDbName, dbConfig,
                              edgeDbs[Len(edgeDbs)]), idx)
  /\ pc' = IF error' = "none" THEN "for" ELSE pc
  /\ UNCHANGED << dns, databases, cdkIdSafeDbName, secrets, securityGroups,
                  baseDbs, edgeDbs >>

\* ------------------------------------------------------- the specification
Next ==
  \/ ForNext
  \/ ForEnd
  \/ ValidateName
  \/ DeriveId
  \/ CreateSecret
  \/ CreateBaseDb
  \/ PublishDatabaseParameters
  \/ EdgeDbCheck
  \/ CreateEdgeDb
  \/ PublishEdgeDbParameters

Spec == Init /\ [][Next]_vars

\* the pass over a single config with the varied inputs
NextLayer ==
  \/ ForNextLayer
  \/ ForEnd
  \/ ValidateName
  \/ DeriveId
  \/ CreateSecret
  \/ CreateBaseDb
  \/ PublishDatabaseParameters
  \/ EdgeDbCheck
  \/ CreateEdgeDb
  \/ PublishEdgeDbParameters

SpecLayer == Init /\ [][NextLayer]_vars


\* ================================================================== claims
\* what has been created for the i-th config
ConstructsOf(i) == { k \in 1..Len(constructs) : constructs[k].cfg = i }
NKind(i, kind) == Cardinality({ k \in ConstructsOf(i) : constructs[k].kind = kind })
SecretsOf(i) == { k \in 1..Len(secrets) : secrets[k].cfg = i }
SecurityGroupsOf(i) == { k \in 1..Len(securityGroups) : securityGroups[k].cfg = i }
BaseDbsOf(i) == { k \in 1..Len(baseDbs) : baseDbs[k].cfg = i }
ParamsOf(i) == { k \in 1..Len(params) : params[k].cfg = i }
EdgeDbsOf(i) == { k \in 1..Len(edgeDbs) : edgeDbs[k].cfg = i }
KeysOf(i) == { params[k].key : k \in ParamsOf(i) }

NothingFor(i) ==
  /\ ConstructsOf(i) = {} /\ SecretsOf(i) = {} /\ SecurityGroupsOf(i) = {}
  /\ BaseDbsOf(i) = {} /\ ParamsOf(i) = {} /\ EdgeDbsOf(i) = {}

EdgeDbKinds ==
  { "EdgeDbConstruct", "EdgeDbSecret", "EdgeDbService",
    "EdgeDbLoadBalancerProtocol", "EdgeDbLoadBalancerUi", "CfnOutput" }

\* a key of the EdgeDb set of a database
IsEdgeDbKey(key) == \E j \in 1..Len(key) : key[j] = "/EdgeDb/"

NoEdgeDbFor(i) ==
  /\ \A k \in ConstructsOf(i) : constructs[k].kind \notin EdgeDbKinds
  /\ EdgeDbsOf(i) = {}
  /\ \A k \in ParamsOf(i) : ~IsEdgeDbKey(params[k].key)

\* the errors the constructor raises itself
ConstructionErrors == { "DatabaseName", "UnknownType", "EdgeDbUi" }

\* the i-th config has been through the whole loop body
Completed(i) == i < idx \/ (i = idx /\ pc \in { "for", "done" })

\* the name is made only of one or more characters of [a-zA-Z0-9_.]
ValidName(name) ==
  Len(name) > 0 /\ \A j \in 1..Len(name) : name[j] \in AllowedChars

PairwiseDifferentNames ==
  \A i, j \in 1..idx : i # j => databases[i].name # databases[j].name

\* C1 (as claimed): when the constructor raises a construction-time error,
\* no secret, security group, database, EdgeDb resource or parameter has been
\* registered for any config of the list
C1_NoPartialGraph ==
  error \in ConstructionErrors => \A i \in 1..idx : NothingFor(i)

\* C1 (amended): when the constructor raises a construction-time error at
\* config i, the configs before i are fully registered, and config i holds
\* only what the statements before the failing check created: nothing for the
\* name error, its secret alone for the unknown type, no EdgeDb resource or
\* EdgeDb parameter for the EdgeDb precondition
C1_StopsAtFailingCheck ==
  error \in ConstructionErrors =>
    /\ \A i \in 1..(idx - 1) :
         /\ Cardinality(SecretsOf(i)) = 1
         /\ Cardinality(BaseDbsOf(i)) = 1
         /\ Cardinality(ParamsOf(i)) >= 7
    /\ error = "DatabaseName" => NothingFor(idx)
    /\ error = "UnknownType" =>
         /\ \A k \in ConstructsOf(idx) : constructs[k].kind = "Secret"
         /\ Cardinality(ConstructsOf(idx)) = 1
         /\ Cardinality(SecretsOf(idx)) = 1
         /\ SecurityGroupsOf(idx) = {} /\ BaseDbsOf(idx) = {}
         /\ ParamsOf(idx) = {} /\ EdgeDbsOf(idx) = {}
    /\ error = "EdgeDbUi" =>
         /\ Cardinality(SecretsOf(idx)) = 1
         /\ Cardinality(BaseDbsOf(idx)) = 1
         /\ Cardinality(ParamsOf(idx)) = 7
         /\ NoEdgeDbFor(idx)

\* a second config fails its name test after the first was registered
C1_Witness ==
  /\ idx = 2 /\ error = "DatabaseName" /\ pc = "validate"
  /\ NothingFor(2) /\ Cardinality(ParamsOf(1)) >= 7

\* C2 (as claimed): a config whose name is empty or holds a character
\* outside [a-zA-Z0-9_.] fails with the database-name error, and no secret,
\* database or parameter is created for it
C2_InvalidNameRejected ==
  \A i \in 1..idx :
    (~ValidName(databases[i].name) /\ (i < idx \/ pc # "validate" \/ error # "none"))
      => /\ i = idx /\ error = "DatabaseName"
         /\ SecretsOf(i) = {} /\ BaseDbsOf(i) = {} /\ ParamsOf(i) = {}

\* C3 (as claimed): for a name made only of one or more characters of
\* [a-zA-Z0-9_.] the derived identifier is computed without error, is
\* non-empty and begins with an uppercase letter
C3_DerivedIdentifier ==
  (idx >= 1 /\ ValidName(dbConfig.name)) =>
    /\ error # "TypeError"
    /\ pc \notin { "validate", "derive" } =>
         Len(cdkIdSafeDbName) > 0 /\ cdkIdSafeDbName[1] \in Upper

\* C4 (as claimed): a pass over configs with pairwise different valid names
\* never meets an identifier collision
C4_CollisionFree ==
  (PairwiseDifferentNames /\ \A i \in 1..idx : ValidName(databases[i].name))
    => error # "DuplicateId"


\* C5: after a pass over configs with pairwise different names, no two
\* published database parameters, of the same or of different databases,
\* share a key
C5_ParameterKeysUnique ==
  PairwiseDifferentNames =>
    \A j, k \in 1..Len(params) : j # k => params[j].key # params[k].key

\* two differently named databases have published their parameters
C5_Witness ==
  /\ idx = 2 /\ pc = "done" /\ error = "none"
  /\ databases[1].name # databases[2].name
  /\ Cardinality(ParamsOf(1)) >= 7 /\ Cardinality(ParamsOf(2)) >= 7

\* the value embeds the password field of a secret
EmbedsPassword(value) ==
  \E j \in 1..(Len(value) - 1) :
    value[j] = ":SecretString:" /\ value[j + 1] = "password"

\* C6 (as claimed): no published parameter value embeds the password field
\* of the secret: the DSN with tokens is never published
C6_NoPasswordPublished ==
  \A k \in 1..Len(params) :
    /\ ~EmbedsPassword(params[k].value)
    /\ \A d \in 1..Len(baseDbs) : params[k].value # baseDbs[d].dsnWithTokens

\* the i-th config has been through the switch on postgresType
Dispatched(i) ==
  \/ Completed(i)
  \/ i = idx /\ pc \in { "params", "edgeDbCheck", "edgeDb", "edgeDbParams" }
  \/ i = idx /\ pc = "baseDb" /\ error # "none"

\* C7 (as claimed): postgresType `instance` yields exactly one
\* InstanceBaseDatabase, `serverless-2` exactly one ServerlessBaseDatabase,
\* any other value fails with the unknown-type error and no base database
C7_VariantDispatch_DataModelTags ==
  \A i \in 1..idx : Dispatched(i) =>
    CASE databases[i].postgresType = "instance" ->
           NKind(i, "InstanceBaseDatabase") = 1
      [] databases[i].postgresType = "serverless-2" ->
           NKind(i, "ServerlessBaseDatabase") = 1
      [] OTHER ->
           /\ i = idx /\ error = "UnknownType"
           /\ NKind(i, "InstanceBaseDatabase") = 0
           /\ NKind(i, "ServerlessBaseDatabase") = 0

\* the base database step of the i-th config has completed
BaseDbDone(i) ==
  \/ Completed(i)
  \/ i = idx /\ pc \in { "params", "edgeDbCheck", "edgeDb", "edgeDbParams" }

BuiltAs(i, variant) ==
  /\ NKind(i, variant) = 1
  /\ Cardinality(BaseDbsOf(i)) = 1
  /\ \A d \in BaseDbsOf(i) : baseDbs[d].variant = variant

\* C7 (amended): a config with postgresType `postgres-instance` never gets
\* a ServerlessBaseDatabase nor more than one InstanceBaseDatabase, and has
\* exactly one InstanceBaseDatabase when its base database step completes;
\* `postgres-serverless-2` likewise with ServerlessBaseDatabase; any other
\* value (`instance` and `serverless-2` included) fails with the unknown-type
\* error without any base database
C7_VariantDispatch ==
  \A i \in 1..idx :
    CASE databases[i].postgresType = "postgres-instance" ->
           /\ NKind(i, "ServerlessBaseDatabase") = 0
           /\ NKind(i, "InstanceBaseDatabase") <= 1
           /\ BaseDbDone(i) => BuiltAs(i, "InstanceBaseDatabase")
      [] databases[i].postgresType = "postgres-serverless-2" ->
           /\ NKind(i, "InstanceBaseDatabase") = 0
           /\ NKind(i, "ServerlessBaseDatabase") <= 1
           /\ BaseDbDone(i) => BuiltAs(i, "ServerlessBaseDatabase")
      [] OTHER ->
           /\ NKind(i, "InstanceBaseDatabase") = 0
           /\ NKind(i, "ServerlessBaseDatabase") = 0
           /\ BaseDbsOf(i) = {}
           /\ Dispatched(i) => (i = idx /\ pc = "baseDb" /\ error = "UnknownType")

\* an instance database and a serverless database built in one pass
C7_Witness ==
  /\ idx = 2 /\ pc = "done"
  /\ databases[1].postgresType = "postgres-instance"
  /\ databases[2].postgresType = "postgres-serverless-2"
  /\ BuiltAs(1, "InstanceBaseDatabase")
  /\ BuiltAs(2, "ServerlessBaseDatabase")

\* the six keys of a base database
BaseDatabaseFields ==
  { "dsnNoPassword", "hostname", "port", "adminUser", "adminPasswordSecretArn",
    "securityGroupId" }

ExpectedKey(name, field) ==
  <<"/">> \o StackId \o <<"/Database/">> \o name \o <<"/", field>>

\* C8 (as claimed): a successfully constructed config without edgeDb
\* publishes exactly the six keys dsnNoPassword, hostname, port, adminUser,
\* adminPasswordSecretArn and securityGroupId under its name, with exactly one
\* secret, one base database and one security group
C8_ExactKeySet ==
  \A i \in 1..idx :
    (Completed(i) /\ error = "none" /\ databases[i].edgeDb = {}) =>
      /\ KeysOf(i) = { ExpectedKey(databases[i].name, f) : f \in BaseDatabaseFields }
      /\ Cardinality(ParamsOf(i)) = 6
      /\ Cardinality(SecretsOf(i)) = 1
      /\ Cardinality(BaseDbsOf(i)) = 1
      /\ Cardinality(SecurityGroupsOf(i)) = 1

\* C9: the security group of a base database allows nothing outbound and has
\* exactly one ingress rule, on the database port, from the group itself when
\* makePubliclyReachable is not set and from any address when it is; no
\* group of a private database has a rule from outside the group
C9_DatabaseSecurityGroup ==
  /\ \A d \in 1..Len(baseDbs) :
       LET db == baseDbs[d]
           cfg == databases[db.cfg]
           own == { k \in 1..Len(securityGroups) :
                      securityGroups[k].path = db.securityGroup }
       IN  /\ Cardinality(own) = 1
           /\ \A k \in own :
                /\ securityGroups[k].cfg = db.cfg
                /\ ~securityGroups[k].allowAllOutbound
                /\ ~securityGroups[k].allowAllIpv6Outbound
                /\ securityGroups[k].ingress =
                     { [ peer |-> IF cfg.makePubliclyReachable
                                    THEN anyIpv4 ELSE securityGroups[k].path,
                         port |-> db.port ] }
  /\ \A k \in 1..Len(securityGroups) :
       ~databases[securityGroups[k].cfg].makePubliclyReachable =>
         \A r \in securityGroups[k].ingress : r.peer = securityGroups[k].path

\* a publicly reachable and a private database built in one pass
C9_Witness ==
  \E j, k \in 1..Len(securityGroups) :
    /\ databases[securityGroups[j].cfg].makePubliclyReachable
    /\ ~databases[securityGroups[k].cfg].makePubliclyReachable
    /\ securityGroups[j].ingress = { [peer |-> anyIpv4, port |-> InstanceEndpointPort] }
    /\ securityGroups[k].ingress =
         { [peer |-> securityGroups[k].path, port |-> InstanceEndpointPort] }

\* the i-th config asks for a publicly reachable EdgeDb UI
WantsPublicUi(i) ==
  databases[i].edgeDb # {} /\ Get(databases[i].edgeDb).makePubliclyReachable # {}

\* the i-th config has been through the creation of its EdgeDb construct
EdgeDbBuilt(i) == Completed(i) \/ (i = idx /\ pc = "edgeDbParams")

\* the i-th config has been through the check of certificate and zone
EdgeDbChecked(i) ==
  \/ EdgeDbBuilt(i)
  \/ i = idx /\ pc = "edgeDb"
  \/ i = idx /\ pc = "edgeDbCheck" /\ error # "none"

\* C10 (as claimed): a config that asks for a publicly reachable EdgeDb UI fails, without
\* any EdgeDb secret, service, load balancer or parameter, when certificate
\* or hosted zone are missing; with both, the EdgeDb construct is built and
\* its UI URL ends in /ui
C10_EdgeDbPublicPrecondition ==
  \A i \in 1..idx : WantsPublicUi(i) =>
    IF cert = {} \/ hz = {}
      THEN /\ NoEdgeDbFor(i)
           /\ EdgeDbChecked(i) => (i = idx /\ error = "EdgeDbUi")
      ELSE /\ error # "EdgeDbUi"
           /\ ~(i = idx /\ pc = "edgeDb" /\ error # "none")
           /\ EdgeDbBuilt(i) =>
                /\ Cardinality(EdgeDbsOf(i)) = 1
                /\ NKind(i, "EdgeDbLoadBalancerUi") = 1
                /\ \A k \in EdgeDbsOf(i) :
                     /\ edgeDbs[k].uiUrl # {}
                     /\ \A u \in edgeDbs[k].uiUrl : u[Len(u)] = "/ui"


\* ------------------------------------------------ the rendered strings
\* the place of the first token t of s, 0 when s has none
IndexOf(s, t) ==
  IF \E k \in 1..Len(s) : s[k] = t
    THEN CHOOSE k \in 1..Len(s) : s[k] = t /\ \A j \in 1..(k - 1) : s[j] # t
    ELSE 0

From(s, k) == SubSeq(s, k, Len(s))

\* the port a string ends with: {p} after a ":", {} without one
ShownPort(s) ==
  IF Len(s) >= 2 /\ s[Len(s) - 1] = ":" THEN { s[Len(s)] } ELSE {}

\* a postgres DSN read back: scheme, credentials, and after the "@" the
\* hostname, the port after ":" and the database name after "/"
PgScheme(dsn) == dsn[1]
PgEndpoint(dsn) == From(dsn, IndexOf(dsn, "@") + 1)
PgCredentials(dsn) == SubSeq(dsn, 2, IndexOf(dsn, "@") - 1)
PgHostname(dsn) == SubSeq(PgEndpoint(dsn), 1, IndexOf(PgEndpoint(dsn), ":") - 1)
PgShownPort(dsn) ==
  LET e == PgEndpoint(dsn)
      c == IndexOf(e, ":")
  IN  IF c > 0 /\ Len(e) >= c + 2 /\ e[c + 2] = "/" THEN { e[c + 1] } ELSE {}
PgDatabaseName(dsn) ==
  LET e == PgEndpoint(dsn)
  IN  From(e, IndexOf(e, ":") + 3)

\* the UI URL without its /ui
UiUrlAuthority(u) == SubSeq(u, 1, Len(u) - 1)

\* the ports of the claim: the configured one, or the default of the scheme
\* when none is configured
ConfiguredOr(opt, d) == IF opt = {} THEN d ELSE Get(opt)

\* both DSN forms of every base database show the resolved port
BaseDsnShowPort ==
  \A k \in 1..Len(baseDbs) :
    /\ PgShownPort(baseDbs[k].dsnWithTokens) = { ToString(baseDbs[k].port) }
    /\ PgShownPort(baseDbs[k].dsnNoPassword) = { ToString(baseDbs[k].port) }

\* the UI URL of every EdgeDb layer shows the hosted port exactly when it is
\* not 443
UiUrlPortElision ==
  \A k \in 1..Len(edgeDbs) :
    LET m == Get(databases[edgeDbs[k].cfg].edgeDb).makePubliclyReachable
    IN  m # {} =>
          /\ edgeDbs[k].uiUrl # {}
          /\ LET hp == ConfiguredOr(Get(m).uiPort, 443)
                 u == Get(edgeDbs[k].uiUrl)
             IN  ShownPort(UiUrlAuthority(u)) =
                   (IF hp # 443 THEN { ToString(hp) } ELSE {})

\* C11 (as claimed): the base-database DSNs always show the port, the
\* edgedb:// DSN shows the port exactly when the configured dbPort (5656 when
\* unspecified) is not 5656, the UI URL exactly when the configured uiPort
\* (443 when unspecified) is not 443
C11_PortElision_Unspecified ==
  /\ BaseDsnShowPort
  /\ UiUrlPortElision
  /\ \A k \in 1..Len(edgeDbs) :
       LET p == ConfiguredOr(Get(databases[edgeDbs[k].cfg].edgeDb).dbPort, 5656)
       IN  ShownPort(edgeDbs[k].dsn) = (IF p # 5656 THEN { ToString(p) } ELSE {})

\* C11 (amended): as claimed, with the pass-through port being the
\* configured dbPort, or 5656 when dbPort is unspecified or 0
C11_PortElision ==
  /\ BaseDsnShowPort
  /\ UiUrlPortElision
  /\ \A k \in 1..Len(edgeDbs) :
       LET d == Get(databases[edgeDbs[k].cfg].edgeDb).dbPort
           p == IF d = {} \/ d = {0} THEN 5656 ELSE Get(d)
       IN  ShownPort(edgeDbs[k].dsn) = (IF p # 5656 THEN { ToString(p) } ELSE {})

\* an EdgeDb layer on port 5657 with its UI on port 443 has been built: its
\* DSN ends in :5657, its UI URL shows no port, its database DSNs show 5432
C11_Witness ==
  /\ pc = "done" /\ Len(edgeDbs) = 1 /\ Len(baseDbs) = 1
  /\ Get(databases[1].edgeDb).dbPort = {5657}
  /\ Get(databases[1].edgeDb).makePubliclyReachable = { [uiPort |-> {443}] }
  /\ ShownPort(edgeDbs[1].dsn) = { "5657" }
  /\ ShownPort(UiUrlAuthority(Get(edgeDbs[1].uiUrl))) = {}
  /\ PgShownPort(baseDbs[1].dsnNoPassword) = { "5432" }


\* C12: for every base database built, dsnWithTokens and dsnNoPassword have
\* the same scheme, hostname, port and database name, these are the hostname
\* and port the database exposes and the name of its config, and the two
\* strings are equal from the "@" on
C12_SameEndpoint ==
  \A k \in 1..Len(baseDbs) :
    LET w == baseDbs[k].dsnWithTokens
        n == baseDbs[k].dsnNoPassword
    IN  /\ PgScheme(w) = PgScheme(n)
        /\ PgHostname(w) = baseDbs[k].hostname
        /\ PgHostname(n) = baseDbs[k].hostname
        /\ PgShownPort(w) = { ToString(baseDbs[k].port) }
        /\ PgShownPort(n) = { ToString(baseDbs[k].port) }
        /\ PgDatabaseName(w) = databases[baseDbs[k].cfg].name
        /\ PgDatabaseName(n) = databases[baseDbs[k].cfg].name
        /\ IndexOf(w, "@") > 0 /\ IndexOf(n, "@") > 0
        /\ PgEndpoint(w) = PgEndpoint(n)

\* an instance database has been built: its two DSN forms differ before the
\* "@" and agree after it
C12_Witness ==
  /\ pc = "params" /\ Len(baseDbs) = 1
  /\ baseDbs[1].variant = "InstanceBaseDatabase"
  /\ PgCredentials(baseDbs[1].dsnWithTokens) # PgCredentials(baseDbs[1].dsnNoPassword)
  /\ PgEndpoint(baseDbs[1].dsnWithTokens) = PgEndpoint(baseDbs[1].dsnNoPassword)
  /\ PgHostname(baseDbs[1].dsnNoPassword) = baseDbs[1].hostname


\* the base database of the i-th config
BaseDbOf(i) == baseDbs[CHOOSE k \in BaseDbsOf(i) : TRUE]

\* C13: a config without edgeDb never gets an EdgeDb resource or EdgeDb
\* parameter; a config with edgeDb whose loop body has completed has exactly
\* one proxy service (desired count 1, cpu and memory as configured or 1024
\* and 2048, bound to the DSN-with-tokens and the security group of its base
\* database) and exactly one protocol load balancer, and a UI load balancer,
\* like the UI feature flag of the service, exactly when makePubliclyReachable
\* is requested
C13_ConditionalEdgeDb ==
  \A i \in 1..idx :
    LET e == databases[i].edgeDb
    IN  /\ e = {} => NoEdgeDbFor(i)
        /\ e # {} =>
             /\ NKind(i, "EdgeDbService") <= 1
             /\ NKind(i, "EdgeDbLoadBalancerProtocol") <= 1
             /\ NKind(i, "EdgeDbLoadBalancerUi")
                  <= (IF Get(e).makePubliclyReachable # {} THEN 1 ELSE 0)
        /\ (e # {} /\ Completed(i)) =>
             /\ NKind(i, "EdgeDbService") = 1
             /\ NKind(i, "EdgeDbLoadBalancerProtocol") = 1
             /\ NKind(i, "EdgeDbLoadBalancerUi")
                  = (IF Get(e).makePubliclyReachable # {} THEN 1 ELSE 0)
             /\ Cardinality(EdgeDbsOf(i)) = 1
             /\ Cardinality(BaseDbsOf(i)) = 1
             /\ \A k \in EdgeDbsOf(i) :
                  LET svc == edgeDbs[k].service
                  IN  /\ svc.desiredCount = 1
                      /\ svc.cpu = ConfiguredOr(Get(e).cpu, 1024)
                      /\ svc.memory = ConfiguredOr(Get(e).memoryLimitMiB, 2048)
                      /\ svc.baseDbDsn = BaseDbOf(i).dsnWithTokens
                      /\ svc.baseDbSecurityGroup = BaseDbOf(i).securityGroup
                      /\ svc.enableUiFeatureFlag = (Get(e).makePubliclyReachable # {})
                      /\ (edgeDbs[k].ui # {}) = (Get(e).makePubliclyReachable # {})

\* a pass has completed over a config with a public EdgeDb block without cpu
\* or memory: one service with 1024 and 2048, one protocol load balancer,
\* one UI load balancer
C13_Witness ==
  /\ pc = "done" /\ idx = 1 /\ databases[1].edgeDb # {}
  /\ Get(databases[1].edgeDb).cpu = {}
  /\ Get(databases[1].edgeDb).memoryLimitMiB = {}
  /\ Get(databases[1].edgeDb).makePubliclyReachable # {}
  /\ NKind(1, "EdgeDbService") = 1
  /\ NKind(1, "EdgeDbLoadBalancerUi") = 1
  /\ edgeDbs[1].service.cpu = 1024 /\ edgeDbs[1].service.memory = 2048
  /\ edgeDbs[1].service.enableUiFeatureFlag


\* ------------------------------------------------------------ the order
BaseDbKinds ==
  { "InstanceBaseDatabase", "ServerlessBaseDatabase", "SecurityGroup",
    "DatabaseInstance", "ServerlessCluster" }

EdgeDbParameterIds ==
  { "DatabaseEdgeDbDsnNoPasswordOrDatabaseParameter",
    "DatabaseEdgeDbAdminPasswordSecretArnParameter",
    "DatabaseEdgeDbSecurityGroupIdParameter" }

\* the step of the loop body that creates the k-th construct of the tree:
\* 1 the secret, 2 the base database, 3 its parameters, 4 the EdgeDb layer,
\* 5 the EdgeDb parameters
StepOfConstruct(c) ==
  CASE c.kind = "Secret" -> 1
    [] c.kind \in BaseDbKinds -> 2
    [] c.kind = "StringParameter" ->
         IF c.id[Len(c.id)] \in EdgeDbParameterIds THEN 5 ELSE 3
    [] OTHER -> 4

StepOf(k) == StepOfConstruct(constructs[k])

\* along the tree the steps of one config follow each other in this order
StepsInOrder ==
  \A k \in 1..(Len(constructs) - 1) :
    (constructs[k].cfg > 0 /\ constructs[k].cfg = constructs[k + 1].cfg)
      => StepOf(k) <= StepOf(k + 1)

NStep(i, a) == Cardinality({ k \in ConstructsOf(i) : StepOf(k) = a })

NonDecreasing(seq) ==
  \A k \in 1..(Len(seq) - 1) : seq[k].cfg <= seq[k + 1].cfg

\* everything the loop body creates for the i-th config is there
FullyRegistered(i) ==
  /\ NStep(i, 1) = 1 /\ NStep(i, 2) = 3 /\ NStep(i, 3) = 7
  /\ Cardinality(SecretsOf(i)) = 1 /\ Cardinality(BaseDbsOf(i)) = 1
  /\ IF databases[i].edgeDb = {}
       THEN NoEdgeDbFor(i)
       ELSE NStep(i, 4) >= 5 /\ NStep(i, 5) = 3 /\ Cardinality(EdgeDbsOf(i)) = 1

ConstructionOrder ==
  \* the configs in input order, none started before the one before it has
  \* all of its resources
  /\ NonDecreasing(constructs) /\ NonDecreasing(secrets)
  /\ NonDecreasing(baseDbs) /\ NonDecreasing(params) /\ NonDecreasing(edgeDbs)
  /\ \A i \in 1..(idx - 1) : FullyRegistered(i)
  /\ \A k \in 1..Len(constructs) : constructs[k].cfg <= idx
  \* within a config: the secret, the base database, its parameters, the
  \* EdgeDb layer, the EdgeDb parameters
  /\ \A i \in 1..idx :
       /\ NStep(i, 2) > 0 => NStep(i, 1) = 1
       /\ NStep(i, 3) > 0 => NStep(i, 2) = 3 /\ Cardinality(BaseDbsOf(i)) = 1
       /\ NStep(i, 4) > 0 => NStep(i, 2) = 3 /\ Cardinality(BaseDbsOf(i)) = 1
       /\ NStep(i, 5) > 0 => Cardinality(EdgeDbsOf(i)) = 1
       /\ ParamsOf(i) # {} => Cardinality(BaseDbsOf(i)) = 1
  /\ StepsInOrder

\* one step of the constructor: the tree only grows at its end, by
\* constructs of the config the loop is at, each of a step not before the
\* step of the construct it follows; the base database is created with the
\* secret of the config there, parameters and EdgeDb layer with its base
\* database there, EdgeDb parameters with its EdgeDb layer there; and the
\* loop takes the next config of the list only when the one before it has
\* all of its resources
OrderedStep ==
  /\ Len(constructs') >= Len(constructs)
  /\ SubSeq(constructs', 1, Len(constructs)) = constructs
  /\ \A k \in (Len(constructs) + 1)..Len(constructs') :
       LET c == constructs'[k]
           a == StepOfConstruct(c)
       IN  /\ c.cfg = idx /\ idx >= 1 /\ databases' = databases
           /\ constructs'[k - 1].cfg = idx => StepOfConstruct(constructs'[k - 1]) <= a
           /\ a = 2 => Cardinality(SecretsOf(idx)) = 1
           /\ a \in { 3, 4 } => Cardinality(BaseDbsOf(idx)) = 1
           /\ a = 5 => Cardinality(EdgeDbsOf(idx)) = 1
  /\ Len(params') >= Len(params)
  /\ SubSeq(params', 1, Len(params)) = params
  /\ \A k \in (Len(params) + 1)..Len(params') :
       params'[k].cfg = idx /\ Cardinality(BaseDbsOf(idx)) = 1
  /\ databases' # databases =>
       /\ databases' = Append(databases, databases'[Len(databases')])
       /\ constructs' = constructs /\ params' = params
       /\ idx >= 1 => FullyRegistered(idx)

\* C15: the configs are processed in input order, a config only after the
\* one before it has all of its resources; within a config the secret comes
\* before the base database, the base database before its parameters and
\* before the EdgeDb layer, the EdgeDb layer before the EdgeDb parameters;
\* once the constructor has thrown nothing more is registered
C15_ConstructionOrder ==
  /\ [][OrderedStep]_vars
  /\ [][error # "none" => UNCHANGED vars]_vars

\* two configs with an EdgeDb layer each have gone through a whole pass
C15_Witness ==
  /\ pc = "done" /\ idx = 2
  /\ FullyRegistered(1) /\ FullyRegistered(2)
  /\ databases[1].edgeDb # {} /\ databases[2].edgeDb # {}
  /\ ConstructionOrder


\* the values published for the i-th config under a field
PublishedValues(i, field) ==
  { params[k].value : k \in { q \in ParamsOf(i) :
                                params[q].key = ExpectedKey(databases[i].name, field) } }

\* C16 (as claimed): after a successful pass, the dsnNoPassword published
\* for every config is postgres://<published adminUser>@<published
\* hostname>:<published port>/<name of the config>, the principal being the
\* adminUser of the config, which is also the username of its secret
C16_PublishedDsnConsistent ==
  (pc = "done" /\ error = "none") =>
    \A i \in 1..idx :
      /\ PublishedValues(i, "adminUser") = { databases[i].adminUser }
      /\ \A k \in SecretsOf(i) : secrets[k].username = databases[i].adminUser
      /\ \A d \in PublishedValues(i, "dsnNoPassword") :
         \A a \in PublishedValues(i, "adminUser") :
         \A h \in PublishedValues(i, "hostname") :
         \A p \in PublishedValues(i, "port") :
           d = <<"postgres://">> \o a \o <<"@">> \o h \o <<":">> \o p \o <<"/">>
                 \o databases[i].name
      /\ Cardinality(PublishedValues(i, "dsnNoPassword")) = 1

====
